---- MODULE Spec2Model ----
(***************************************************************************)
(* Model of the holdemrmx library (src/src/lib.rs): the 52-card Deck with  *)
(* shuffle / draw / reset, the seven-card Hand with its rank bitmask and   *)
(* its rank and suit count maps, the classification Hand::best and the     *)
(* derived order on HandRanking.                                           *)
(***************************************************************************)
EXTENDS Integers, Sequences, FiniteSets, TLC

VARIABLES
    cards,      \* Deck.cards : the undealt cards, last element is the top
    dealt,      \* Deck.dealt : the cards handed out since the last reset
    call,       \* the most recent Deck call and how it ended
    drawn,      \* the Vec<Card> the most recent draw returned
    returned,   \* history: cards returned by draws since the last reset
    ops,        \* number of Deck calls made so far
    hole,       \* the hole_cards slice given to Hand::new
    board,      \* the board_cards slice given to Hand::new
    hand,       \* the Hand value: cards, bitmask, suit_map, rank_map
    ranking,    \* the value returned by Hand::best
    flush,      \* the value returned by Hand::check_flush
    straight,   \* the value returned by Hand::best_straight
    phase,      \* position of the evaluator run
    lhs,        \* left operand of a HandRanking comparison
    rhs,        \* right operand of a HandRanking comparison
    ord         \* the results of lhs.partial_cmp(&rhs) and of lhs == rhs

vars == <<cards, dealt, call, drawn, returned, ops,
          hole, board, hand, ranking, flush, straight, phase, lhs, rhs, ord>>

deckVars == <<cards, dealt, call, drawn, returned, ops>>
handVars == <<hole, board, hand, ranking, flush, straight, phase>>
ordVars  == <<lhs, rhs, ord>>

-----------------------------------------------------------------------------
(* Bounds of the model *)

\* longest run of Deck calls explored
MaxOps == 4
\* draw sizes 0..MaxDraw are tried besides the sizes around the deck length
MaxDraw == 2
\* a shuffle may permute the top ShuffleWindow cards in every possible way
ShuffleWindow == 2
\* the first NumBoards boards of Boards are dealt, each with every hole
NumBoards == 6
\* number of orders in which the seven cards are handed to Hand::new
NumArrangements == 2
\* number of iteration orders tried for the HashMaps of a Hand
NumHashOrders == 2
\* the lowest NumSampleRanks ranks and the Ace are the Rank fields compared
NumSampleRanks == 2
\* the masks 0..MaxSampleMask are among the u16 fields compared
MaxSampleMask == 1

-----------------------------------------------------------------------------
(* Suit, Rank, Card *)

\* enum Suit, in declaration order (the order Suit::iter() yields)
SuitIter == <<"Clubs", "Diamonds", "Hearts", "Spades">>

\* enum Rank, in declaration order (the order Rank::iter() yields)
RankIter == <<"Two", "Three", "Four", "Five", "Six", "Seven", "Eight",
              "Nine", "Ten", "Jack", "Queen", "King", "Ace">>

Suit == {SuitIter[i] : i \in 1..Len(SuitIter)}
Rank == {RankIter[i] : i \in 1..Len(RankIter)}

\* the value a panic!() leaves in place of a result
Panic == "panic"

\* Rank::score
score(r) ==
    CASE r = "Two"   -> 1
      [] r = "Three" -> 2
      [] r = "Four"  -> 3
      [] r = "Five"  -> 4
      [] r = "Six"   -> 5
      [] r = "Seven" -> 6
      [] r = "Eight" -> 7
      [] r = "Nine"  -> 8
      [] r = "Ten"   -> 9
      [] r = "Jack"  -> 10
      [] r = "Queen" -> 11
      [] r = "King"  -> 12
      [] r = "Ace"   -> 13

\* Rank::id : panics on a score outside 1..13
id(s) ==
    CASE s = 1  -> "Two"
      [] s = 2  -> "Three"
      [] s = 3  -> "Four"
      [] s = 4  -> "Five"
      [] s = 5  -> "Six"
      [] s = 6  -> "Seven"
      [] s = 7  -> "Eight"
      [] s = 8  -> "Nine"
      [] s = 9  -> "Ten"
      [] s = 10 -> "Jack"
      [] s = 11 -> "Queen"
      [] s = 12 -> "King"
      [] s = 13 -> "Ace"
      [] OTHER  -> Panic

\* position of a variant in its enum declaration: what derive(Ord) compares
Discriminant(iter, v) == CHOOSE i \in 1..Len(iter) : iter[i] = v

\* Card::new
NewCard(rank, suit) == [rank |-> rank, suit |-> suit]

\* Card::score
CardScore(card) == score(card.rank)

Card == {NewCard(r, s) : r \in Rank, s \in Suit}

-----------------------------------------------------------------------------
(* Helpers on sequences *)

Range(s) == {s[i] : i \in 1..Len(s)}

Reverse(s) == [i \in 1..Len(s) |-> s[Len(s) + 1 - i]]

NoDup(s) == \A i, j \in 1..Len(s) : i # j => s[i] # s[j]

\* all orderings of the elements of the sequence s
RECURSIVE PermsOf(_)
PermsOf(s) ==
    IF Len(s) <= 1 THEN {s}
    ELSE UNION { {<<s[i]>> \o p :
                    p \in PermsOf(SubSeq(s, 1, i - 1) \o SubSeq(s, i + 1, Len(s)))}
                 : i \in 1..Len(s) }

-----------------------------------------------------------------------------
(* Deck *)

\* Deck::new : for rank in Rank::iter() { for suit in Suit::iter() { push } }
DeckNewCards ==
    [i \in 1..(Len(RankIter) * Len(SuitIter)) |->
        NewCard(RankIter[((i - 1) \div Len(SuitIter)) + 1],
                SuitIter[((i - 1) % Len(SuitIter)) + 1])]

\* mutant of DrawLoop: the cards are taken from the bottom of the deck
RECURSIVE DrawLoopFromBottom(_, _, _, _)
DrawLoopFromBottom(cs, ds, out, k) ==
    IF k = 0 THEN [cards |-> cs, dealt |-> ds, out |-> out, panicked |-> FALSE]
    ELSE IF Len(cs) > 0
         THEN LET card == cs[1]
              IN  DrawLoopFromBottom(SubSeq(cs, 2, Len(cs)),
                                     Append(ds, card), Append(out, card), k - 1)
         ELSE [cards |-> cs, dealt |-> ds, out |-> <<>>, panicked |-> TRUE]

\* the loop of Deck::draw : pop, push to dealt, push to the result; panic
\* as soon as pop() finds the undealt cards empty
RECURSIVE DrawLoop(_, _, _, _)
DrawLoop(cs, ds, out, k) ==
    IF k = 0 THEN [cards |-> cs, dealt |-> ds, out |-> out, panicked |-> FALSE]
    ELSE IF Len(cs) > 0
         THEN LET card == cs[Len(cs)]
              IN  DrawLoop(SubSeq(cs, 1, Len(cs) - 1),
                           Append(ds, card), Append(out, card), k - 1)
         ELSE [cards |-> cs, dealt |-> ds, out |-> <<>>, panicked |-> TRUE]

\* the outcomes of slice.shuffle(&mut thread_rng()) the model explores: the
\* top ShuffleWindow cards in any order, or the whole slice turned over
ShuffleOutcomes(s) ==
    LET w == IF Len(s) < ShuffleWindow THEN Len(s) ELSE ShuffleWindow
    IN  {SubSeq(s, 1, Len(s) - w) \o p : p \in PermsOf(SubSeq(s, Len(s) - w + 1, Len(s)))}
        \cup {Reverse(s)}

\* the arguments of draw the model explores (nr : u8)
DrawArgs(len) ==
    ((0..MaxDraw) \cup {len - MaxDraw, len, len + 1}) \cap (0..255)

DeckInit ==
    /\ cards = DeckNewCards
    /\ dealt = <<>>
    /\ call = [op |-> "new", nr |-> 0, panicked |-> FALSE]
    /\ drawn = <<>>
    /\ returned = {}
    /\ ops = 0

\* Deck::shuffle
Shuffle ==
    /\ ops < MaxOps
    /\ \E s \in ShuffleOutcomes(cards) : cards' = s
    /\ call' = [op |-> "shuffle", nr |-> 0, panicked |-> FALSE]
    /\ ops' = ops + 1
    /\ UNCHANGED <<dealt, drawn, returned>>

\* Deck::draw
Draw(nr) ==
    /\ ops < MaxOps
    /\ LET r == DrawLoop(cards, dealt, <<>>, nr)
       IN  /\ cards' = r.cards
           /\ dealt' = r.dealt
           /\ drawn' = r.out
           /\ returned' = returned \cup Range(r.out)
           /\ call' = [op |-> "draw", nr |-> nr, panicked |-> r.panicked]
    /\ ops' = ops + 1

\* mutant of Reset: the dealt cards are copied back, not moved
ResetCopies ==
    /\ ops < MaxOps
    /\ cards' = cards \o dealt
    /\ dealt' = dealt
    /\ returned' = {}
    /\ call' = [op |-> "reset", nr |-> 0, panicked |-> FALSE]
    /\ ops' = ops + 1
    /\ UNCHANGED drawn

\* mutant of Reset: the dealt cards are put under the undealt ones
ResetPrepends ==
    /\ ops < MaxOps
    /\ cards' = dealt \o cards
    /\ dealt' = <<>>
    /\ returned' = {}
    /\ call' = [op |-> "reset", nr |-> 0, panicked |-> FALSE]
    /\ ops' = ops + 1
    /\ UNCHANGED drawn

\* Deck::reset : self.cards.append(&mut self.dealt)
Reset ==
    /\ ops < MaxOps
    /\ cards' = cards \o dealt
    /\ dealt' = <<>>
    /\ returned' = {}
    /\ call' = [op |-> "reset", nr |-> 0, panicked |-> FALSE]
    /\ ops' = ops + 1
    /\ UNCHANGED drawn

HandIdle ==
    /\ hole = <<>>
    /\ board = <<>>
    /\ hand = [cards |-> <<>>, bitmask |-> 0, suit_map |-> <<>>, rank_map |-> <<>>]
    /\ ranking = [variant |-> "None", ranks |-> <<>>, mask |-> 0]
    /\ flush = [variant |-> "None", ranks |-> <<>>, mask |-> 0]
    /\ straight = "None"
    /\ phase = "idle"

OrdIdle ==
    /\ lhs = [variant |-> "None", ranks |-> <<>>, mask |-> 0]
    /\ rhs = [variant |-> "None", ranks |-> <<>>, mask |-> 0]
    /\ ord = [cmp |-> "None", eq |-> FALSE]

Init == DeckInit /\ HandIdle /\ OrdIdle

Next ==
    \/ Shuffle /\ UNCHANGED <<handVars, ordVars>>
    \/ (\E nr \in DrawArgs(Len(cards)) : Draw(nr)) /\ UNCHANGED <<handVars, ordVars>>
    \/ Reset /\ UNCHANGED <<handVars, ordVars>>

Spec == Init /\ [][Next]_vars

-----------------------------------------------------------------------------
(* u16 arithmetic *)

\* the number of values of a u16
U16 == 65536

\* a & b
RECURSIVE BitAnd(_, _)
BitAnd(a, b) ==
    IF a = 0 \/ b = 0 THEN 0
    ELSE (a % 2) * (b % 2) + 2 * BitAnd(a \div 2, b \div 2)

\* a | b
RECURSIVE BitOr(_, _)
BitOr(a, b) ==
    IF a = 0 THEN b
    ELSE IF b = 0 THEN a
    ELSE (IF a % 2 = 1 \/ b % 2 = 1 THEN 1 ELSE 0) + 2 * BitOr(a \div 2, b \div 2)

\* mutant of BitXor: no bit of a is cleared
BitXorKeeps(a, b) == a

\* a ^ b
RECURSIVE BitXor(_, _)
BitXor(a, b) ==
    IF a = 0 THEN b
    ELSE IF b = 0 THEN a
    ELSE (IF a % 2 = b % 2 THEN 0 ELSE 1) + 2 * BitXor(a \div 2, b \div 2)

\* a << n, on a u16
Shl(a, n) == (a * (2 ^ n)) % U16

\* !a, on a u16
BitNot(a) == (U16 - 1) - a

\* mutant of Log2U8: the number of significant bits, one more than the index
RECURSIVE Log2OneBased(_)
Log2OneBased(x) == IF x = 0 THEN 0 ELSE 1 + Log2OneBased(x \div 2)

\* (x as f64).log2() as u8 : the index of the most significant set bit;
\* log2(0) is -inf, which the cast saturates to 0
RECURSIVE Log2U8(_)
Log2U8(x) == IF x <= 1 THEN 0 ELSE 1 + Log2U8(x \div 2)

-----------------------------------------------------------------------------
(* HandRanking *)

\* mutant of HandRankingIter: Flush declared after FullHouse
HandRankingIterSwapped == <<"HighCard", "OnePair", "TwoPair", "Set", "Straight",
                            "FullHouse", "Flush", "Quads", "StraightFlush", "RoyalFlush">>

\* enum HandRanking, in declaration order
HandRankingIter == <<"HighCard", "OnePair", "TwoPair", "Set", "Straight",
                     "Flush", "FullHouse", "Quads", "StraightFlush", "RoyalFlush">>

\* Option::None, for Option<Rank> and Option<HandRanking>
NoRank == "None"
NoRanking == [variant |-> "None", ranks |-> <<>>, mask |-> 0]

\* a call that ended in the panic of Rank::id
PanicRanking == [variant |-> Panic, ranks |-> <<>>, mask |-> 0]

\* a HandRanking value: the variant, its Rank fields in declared order and
\* its u16 field (0 for the variants without one); building it from a Rank
\* that Rank::id panicked on is the panic
MkRanking(variant, ranks, mask) ==
    IF \E i \in 1..Len(ranks) : ranks[i] = Panic
    THEN PanicRanking
    ELSE [variant |-> variant, ranks |-> ranks, mask |-> mask]

\* Ord::cmp on two Rank values (derived: by position in the declaration)
RankCmp(x, y) ==
    LET dx == Discriminant(RankIter, x)
        dy == Discriminant(RankIter, y)
    IN  IF dx < dy THEN "Less" ELSE IF dx > dy THEN "Greater" ELSE "Equal"

\* Ord::cmp on two u16 values
U16Cmp(x, y) == IF x < y THEN "Less" ELSE IF x > y THEN "Greater" ELSE "Equal"

\* the derived comparison of the Rank fields of two values of one variant,
\* left to right from field i
RECURSIVE RanksCmp(_, _, _)
RanksCmp(xs, ys, i) ==
    IF i > Len(xs) THEN "Equal"
    ELSE LET c == RankCmp(xs[i], ys[i])
         IN  IF c # "Equal" THEN c ELSE RanksCmp(xs, ys, i + 1)

\* PartialOrd::partial_cmp derived for HandRanking: the variants by their
\* position in the declaration, then the fields in declared order (in every
\* variant the Rank fields come before the u16 field)
partial_cmp(x, y) ==
    LET dx == Discriminant(HandRankingIter, x.variant)
        dy == Discriminant(HandRankingIter, y.variant)
    IN  IF dx < dy THEN "Less"
        ELSE IF dx > dy THEN "Greater"
        ELSE LET c == RanksCmp(x.ranks, y.ranks, 1)
             IN  IF c # "Equal" THEN c ELSE U16Cmp(x.mask, y.mask)

\* PartialEq::eq derived for HandRanking: the same variant with equal fields
eq(x, y) == x.variant = y.variant /\ x.ranks = y.ranks /\ x.mask = y.mask

-----------------------------------------------------------------------------
(* Hand *)

\* HashMap entry(key).or_insert(0) followed by *count += 1
CountUp(map, key) ==
    IF key \in DOMAIN map THEN [map EXCEPT ![key] = @ + 1]
    ELSE [k \in DOMAIN map \cup {key} |-> IF k = key THEN 1 ELSE map[k]]

\* bitmask |= 1 << card.score(); if card.score() == 13 { bitmask |= 0x01 }
SetCardBit(bitmask, card) ==
    LET b == BitOr(bitmask, Shl(1, CardScore(card)))
    IN  IF CardScore(card) = 13 THEN BitOr(b, 1) ELSE b

\* the loop of Hand::new over the cards, from card i on
RECURSIVE HandNewLoop(_, _, _, _, _)
HandNewLoop(cs, i, suits, ranks, bitmask) ==
    IF i > Len(cs) THEN [suits |-> suits, ranks |-> ranks, bitmask |-> bitmask]
    ELSE HandNewLoop(cs, i + 1, CountUp(suits, cs[i].suit),
                     CountUp(ranks, cs[i].rank), SetCardBit(bitmask, cs[i]))

\* the keys of a map, ascending in the order of the enum declaration iter
RECURSIVE KeysAscending(_, _, _)
KeysAscending(map, iter, i) ==
    IF i > Len(iter) THEN <<>>
    ELSE (IF iter[i] \in DOMAIN map THEN <<iter[i]>> ELSE <<>>)
         \o KeysAscending(map, iter, i + 1)

\* s turned left by n places
Rotate(s, n) ==
    IF Len(s) = 0 THEN s
    ELSE [i \in 1..Len(s) |-> s[((i - 1 + n) % Len(s)) + 1]]

\* the h-th of the orders in which a sequence is laid out: turned left by
\* h \div 2 places, and back to front when h is odd
Layout(s, h) ==
    LET r == Rotate(s, h \div 2)
    IN  IF h % 2 = 1 THEN Reverse(r) ELSE r

\* a HashMap as the sequence of (key, count) entries its iterator yields;
\* the order depends on the map's RandomState, here one of the layouts of
\* the keys
HashMapEntries(map, iter, h) ==
    LET keys == Layout(KeysAscending(map, iter, 1), h)
    IN  [i \in 1..Len(keys) |-> [key |-> keys[i], count |-> map[keys[i]]]]

\* Hand::new ; h stands for the thread's RandomState keys, from which both
\* maps take their hasher and with it their iteration order
HandNew(hole_cards, board_cards, h) ==
    LET cs == hole_cards \o board_cards
        r  == HandNewLoop(cs, 1, <<>>, <<>>, 0)
    IN  [cards    |-> cs,
         bitmask  |-> r.bitmask,
         suit_map |-> HashMapEntries(r.suits, SuitIter, h),
         rank_map |-> HashMapEntries(r.ranks, RankIter, h)]

\* Hand::bits_set
RECURSIVE bits_set(_)
bits_set(bitmask) ==
    IF bitmask = 0 THEN 0
    ELSE 1 + bits_set(BitAnd(bitmask, bitmask - 1))

\* the while loop of Hand::highcards
RECURSIVE HighcardsLoop(_, _, _)
HighcardsLoop(bitmask, bits, bits_needed) ==
    IF bits > bits_needed
    THEN HighcardsLoop(BitAnd(bitmask, bitmask - 1), bits - 1, bits_needed)
    ELSE bitmask

\* mutant of highcards: one bit too many is kept
highcardsOneMore(bitmask, bits_needed) ==
    LET b == BitAnd(bitmask, BitNot(1))
    IN  HighcardsLoop(b, bits_set(b), bits_needed + 1)

\* Hand::highcards
highcards(bitmask, bits_needed) ==
    LET b == BitAnd(bitmask, BitNot(1))
    IN  HighcardsLoop(b, bits_set(b), bits_needed)

\* the loop of Hand::best_straight, from window i down to window 0
RECURSIVE BestStraightLoop(_, _)
BestStraightLoop(bitmask, i) ==
    IF i < 0 THEN NoRank
    ELSE IF BitAnd(bitmask, Shl(31, i)) = Shl(31, i)
         THEN id(i + 4)
         ELSE BestStraightLoop(bitmask, i - 1)

\* mutant of best_straight: the windows are tried from the lowest up
RECURSIVE BestStraightLoopUp(_, _)
BestStraightLoopUp(bitmask, i) ==
    IF i > 9 THEN NoRank
    ELSE IF BitAnd(bitmask, Shl(31, i)) = Shl(31, i)
         THEN id(i + 4)
         ELSE BestStraightLoopUp(bitmask, i + 1)

best_straightLowest(bitmask) == BestStraightLoopUp(bitmask, 0)

\* Hand::best_straight
best_straight(bitmask) == BestStraightLoop(bitmask, 9)

\* the search for the flush suit in Hand::check_flush
RECURSIVE FlushSuitLoop(_, _)
FlushSuitLoop(suit_map, i) ==
    IF i > Len(suit_map) THEN "None"
    ELSE IF suit_map[i].count >= 5 THEN suit_map[i].key
    ELSE FlushSuitLoop(suit_map, i + 1)

\* mutant of FlushMaskLoop: the cards of every suit are taken
RECURSIVE FlushMaskLoopAnySuit(_, _, _, _)
FlushMaskLoopAnySuit(cs, i, suit, bitmask) ==
    IF i > Len(cs) THEN bitmask
    ELSE FlushMaskLoopAnySuit(cs, i + 1, suit, SetCardBit(bitmask, cs[i]))

\* the loop of Hand::check_flush over the cards of the flush suit
RECURSIVE FlushMaskLoop(_, _, _, _)
FlushMaskLoop(cs, i, suit, bitmask) ==
    IF i > Len(cs) THEN bitmask
    ELSE FlushMaskLoop(cs, i + 1, suit,
                       IF cs[i].suit = suit THEN SetCardBit(bitmask, cs[i])
                       ELSE bitmask)

\* Hand::check_flush
check_flush(h) ==
    LET suit == FlushSuitLoop(h.suit_map, 1)
    IN  IF suit = "None" THEN NoRanking
        ELSE LET bitmask == FlushMaskLoop(h.cards, 1, suit, 0)
                 card == best_straight(bitmask)
             IN  IF card # NoRank
                 THEN IF card = "Ace"
                      THEN MkRanking("RoyalFlush", <<>>, 0)
                      ELSE MkRanking("StraightFlush", <<card>>, 0)
                 ELSE MkRanking("Flush", <<>>, highcards(bitmask, 5))

\* Vec<Rank>::sort : insertion of r into an ascending sequence
RECURSIVE SortedInsert(_, _)
SortedInsert(s, r) ==
    IF s = <<>> THEN <<r>>
    ELSE IF Discriminant(RankIter, r) <= Discriminant(RankIter, s[1])
         THEN <<r>> \o s
         ELSE <<s[1]>> \o SortedInsert(Tail(s), r)

RECURSIVE SortRanks(_)
SortRanks(s) ==
    IF s = <<>> THEN <<>> ELSE SortedInsert(SortRanks(Tail(s)), s[1])

\* mutant of SortReverse: the reverse() is missing
SortOnly(s) == SortRanks(s)

\* mutant of SortReverse: neither sorted nor reversed
Unsorted(s) == s

\* v.sort(); v.reverse();
SortReverse(s) == Reverse(SortRanks(s))

\* the loop of Hand::best over rank_map: collects the pairs and the sets
\* and stops at the first rank of count 4
RECURSIVE RankScanLoop(_, _, _, _)
RankScanLoop(rank_map, i, pair, set) ==
    IF i > Len(rank_map) THEN [pair |-> pair, set |-> set, quads |-> NoRank]
    ELSE LET e == rank_map[i]
         IN  CASE e.count = 2 -> RankScanLoop(rank_map, i + 1, Append(pair, e.key), set)
               [] e.count = 3 -> RankScanLoop(rank_map, i + 1, pair, Append(set, e.key))
               [] e.count = 4 -> [pair |-> pair, set |-> set, quads |-> e.key]
               [] OTHER -> RankScanLoop(rank_map, i + 1, pair, set)

\* Hand::best
best(h) ==
    LET scan == RankScanLoop(h.rank_map, 1, <<>>, <<>>)
        pair == scan.pair
        set  == scan.set
    IN  IF scan.quads # NoRank
        THEN LET bitmask == BitXor(h.bitmask, Shl(1, score(scan.quads)))
             IN  MkRanking("Quads", <<scan.quads, id(Log2U8(bitmask))>>, 0)
        ELSE IF Len(set) = 2
        THEN LET s == SortReverse(set)
             IN  MkRanking("FullHouse", <<s[1], s[2]>>, 0)
        ELSE IF Len(set) = 1 /\ pair # <<>>
        THEN LET p == SortReverse(pair)
             IN  MkRanking("FullHouse", <<set[1], p[1]>>, 0)
        ELSE LET fl == check_flush(h)
             IN
        IF fl # NoRanking THEN fl
        ELSE LET card == best_straight(h.bitmask)
             IN
        IF card # NoRank THEN MkRanking("Straight", <<card>>, 0)
        ELSE IF Len(set) = 1
        THEN LET bitmask == BitXor(h.bitmask, Shl(1, score(set[1])))
             IN  MkRanking("Set", <<set[1]>>, highcards(bitmask, 2))
        ELSE IF Len(pair) > 1
        THEN LET p == SortReverse(pair)
                 bitmask == BitXor(BitXor(h.bitmask, Shl(1, score(p[1]))),
                                   Shl(1, score(p[2])))
             IN  MkRanking("TwoPair", <<p[1], p[2], id(Log2U8(bitmask))>>, 0)
        ELSE IF pair # <<>>
        THEN LET bitmask == BitXor(h.bitmask, Shl(1, score(pair[1])))
             IN  MkRanking("OnePair", <<pair[1]>>, highcards(bitmask, 3))
        ELSE MkRanking("HighCard", <<>>, highcards(h.bitmask, 5))

-----------------------------------------------------------------------------
(* Evaluating hands: Hand::new, then Hand::best or Hand::check_flush *)

\* the boards dealt: boards of the tests of src/src/lib.rs (check_high_card,
\* check_straight, check_straight_flush), a board with four cards to a
\* straight flush, more boards of the tests (check_set, check_two_pair,
\* check_full_house_two_sets, check_flush), a board whose ranks wrap around
\* the Ace, and the remaining boards of the tests
Boards ==
    << <<NewCard("King", "Diamonds"), NewCard("Six", "Spades"), NewCard("Eight", "Hearts"),
         NewCard("Four", "Clubs"), NewCard("Three", "Spades")>>,
       <<NewCard("Two", "Diamonds"), NewCard("Five", "Diamonds"), NewCard("Ace", "Hearts"),
         NewCard("Five", "Clubs"), NewCard("Four", "Clubs")>>,
       <<NewCard("King", "Hearts"), NewCard("Five", "Hearts"), NewCard("Four", "Hearts"),
         NewCard("Ace", "Hearts"), NewCard("Queen", "Hearts")>>,
       <<NewCard("Five", "Hearts"), NewCard("Six", "Hearts"), NewCard("Seven", "Hearts"),
         NewCard("Eight", "Hearts"), NewCard("Ten", "Clubs")>>,
       <<NewCard("Ace", "Diamonds"), NewCard("Ace", "Clubs"), NewCard("Eight", "Hearts"),
         NewCard("Nine", "Clubs"), NewCard("King", "Spades")>>,
       <<NewCard("Six", "Diamonds"), NewCard("Six", "Spades"), NewCard("Eight", "Hearts"),
         NewCard("Eight", "Clubs"), NewCard("Three", "Spades")>>,
       <<NewCard("King", "Diamonds"), NewCard("Two", "Spades"), NewCard("King", "Hearts"),
         NewCard("King", "Clubs"), NewCard("Nine", "Clubs")>>,
       <<NewCard("King", "Hearts"), NewCard("Five", "Hearts"), NewCard("Nine", "Hearts"),
         NewCard("Two", "Hearts"), NewCard("Nine", "Clubs")>>,
       <<NewCard("Queen", "Clubs"), NewCard("King", "Diamonds"), NewCard("Ace", "Hearts"),
         NewCard("Two", "Spades"), NewCard("Three", "Diamonds")>>,
       <<NewCard("King", "Diamonds"), NewCard("King", "Spades"), NewCard("Nine", "Hearts"),
         NewCard("Two", "Hearts"), NewCard("Nine", "Clubs")>>,
       <<NewCard("Six", "Diamonds"), NewCard("Two", "Spades"), NewCard("Six", "Hearts"),
         NewCard("Seven", "Clubs"), NewCard("Seven", "Spades")>>,
       <<NewCard("King", "Hearts"), NewCard("Queen", "Hearts"), NewCard("Ace", "Hearts"),
         NewCard("Jack", "Hearts"), NewCard("Nine", "Hearts")>>,
       <<NewCard("Ace", "Diamonds"), NewCard("Six", "Spades"), NewCard("Eight", "Hearts"),
         NewCard("Four", "Clubs"), NewCard("Three", "Spades")>> >>

\* the boards in use
BoardIndex == 1..(IF NumBoards < Len(Boards) THEN NumBoards ELSE Len(Boards))

\* hole and board as the slices passed to Hand::new: the seven cards in the
\* k-th layout, the first two as hole cards and the other five as board
DealtHole(seven, k) == SubSeq(Layout(seven, k), 1, 2)
DealtBoard(seven, k) == SubSeq(Layout(seven, k), 3, 7)

EvalInit ==
    /\ \E b \in BoardIndex, i, j \in 1..Len(DeckNewCards), k \in 0..(NumArrangements - 1) :
          /\ i < j
          /\ DeckNewCards[i] \notin Range(Boards[b])
          /\ DeckNewCards[j] \notin Range(Boards[b])
          /\ LET seven == <<DeckNewCards[i], DeckNewCards[j]>> \o Boards[b]
             IN  /\ hole = DealtHole(seven, k)
                 /\ board = DealtBoard(seven, k)
    /\ hand = [cards |-> <<>>, bitmask |-> 0, suit_map |-> <<>>, rank_map |-> <<>>]
    /\ ranking = NoRanking
    /\ flush = NoRanking
    /\ straight = NoRank
    /\ phase = "dealt"

\* let hand = Hand::new(&hole, &board);
NewHand ==
    /\ phase = "dealt"
    /\ \E h \in 0..(NumHashOrders - 1) : hand' = HandNew(hole, board, h)
    /\ phase' = "new"
    /\ UNCHANGED <<hole, board, ranking, flush, straight>>

\* hand.best()
Best ==
    /\ phase = "new"
    /\ ranking' = best(hand)
    /\ phase' = "best"
    /\ UNCHANGED <<hole, board, hand, flush, straight>>

\* hand.check_flush()
CheckFlush ==
    /\ phase = "new"
    /\ flush' = check_flush(hand)
    /\ phase' = "flush"
    /\ UNCHANGED <<hole, board, hand, ranking, straight>>

DeckIdle ==
    /\ cards = <<>>
    /\ dealt = <<>>
    /\ call = [op |-> "none", nr |-> 0, panicked |-> FALSE]
    /\ drawn = <<>>
    /\ returned = {}
    /\ ops = 0

InitEval == DeckIdle /\ EvalInit /\ OrdIdle

NextEval ==
    \/ NewHand /\ UNCHANGED <<deckVars, ordVars>>
    \/ Best /\ UNCHANGED <<deckVars, ordVars>>
    \/ CheckFlush /\ UNCHANGED <<deckVars, ordVars>>

SpecEval == InitEval /\ [][NextEval]_vars

-----------------------------------------------------------------------------
(* Straight detection: Hand::best_straight on the bitmask of a Hand *)

\* seven distinct cards whose ranks are exactly the ranks R: the ranks of R
\* in ascending order, again and again, each round in the next suit
SevenOfRanks(R) ==
    LET rs == SelectSeq(RankIter, LAMBDA r : r \in R)
        n  == Len(rs)
    IN  [i \in 1..7 |-> NewCard(rs[((i - 1) % n) + 1], SuitIter[((i - 1) \div n) + 1])]

\* the sets of ranks seven distinct cards can have: two ranks (four cards
\* of one and three of another) up to seven
SevenCardRankSets == {R \in SUBSET Rank : Cardinality(R) \in 2..7}

\* a Hand built by Hand::new from two hole cards and five board cards, for
\* every set of ranks seven cards can have
StraightInit ==
    /\ \E R \in SevenCardRankSets :
          LET seven == SevenOfRanks(R)
          IN  /\ hole = SubSeq(seven, 1, 2)
              /\ board = SubSeq(seven, 3, 7)
    /\ hand = HandNew(hole, board, 0)
    /\ ranking = NoRanking
    /\ flush = NoRanking
    /\ straight = NoRank
    /\ phase = "new"

\* self.best_straight(self.bitmask)
BestStraight ==
    /\ phase = "new"
    /\ straight' = best_straight(hand.bitmask)
    /\ phase' = "straight"
    /\ UNCHANGED <<hole, board, hand, ranking, flush>>

InitStraight == DeckIdle /\ StraightInit /\ OrdIdle

NextStraight == BestStraight /\ UNCHANGED <<deckVars, ordVars>>

SpecStraight == InitStraight /\ [][NextStraight]_vars

-----------------------------------------------------------------------------
(* Comparing HandRanking values *)

\* the Rank and u16 field values the compared HandRanking values are built of
SampleRanks == {RankIter[i] : i \in 1..NumSampleRanks} \cup {"Ace"}
SampleMasks == (0..MaxSampleMask) \cup {2 ^ 13 - 1, 2 ^ 13, U16 - 1}

\* the values of enum HandRanking over the sample fields
SampleRankings ==
    LET V(variant, n, masks) ==
            {[variant |-> variant, ranks |-> r, mask |-> m] :
                r \in [1..n -> SampleRanks], m \in masks}
    IN  V("HighCard", 0, SampleMasks) \cup V("OnePair", 1, SampleMasks)
        \cup V("TwoPair", 3, {0}) \cup V("Set", 1, SampleMasks)
        \cup V("Straight", 1, {0}) \cup V("Flush", 0, SampleMasks)
        \cup V("FullHouse", 2, {0}) \cup V("Quads", 2, {0})
        \cup V("StraightFlush", 1, {0}) \cup V("RoyalFlush", 0, {0})

OrdInit ==
    /\ lhs \in SampleRankings
    /\ rhs \in SampleRankings
    /\ ord = [cmp |-> "None", eq |-> FALSE]

\* lhs.partial_cmp(&rhs) and lhs == rhs, as the operators <, > and == use them
Compare ==
    /\ ord.cmp = "None"
    /\ ord' = [cmp |-> partial_cmp(lhs, rhs), eq |-> eq(lhs, rhs)]
    /\ UNCHANGED <<lhs, rhs>>

InitOrd == DeckIdle /\ HandIdle /\ OrdInit

NextOrd == Compare /\ UNCHANGED <<deckVars, handVars>>

SpecOrd == InitOrd /\ [][NextOrd]_vars

-----------------------------------------------------------------------------
(* Claims about the Deck *)

\* C1: in every reachable state the undealt and the dealt cards together
\* number 52, share no card, repeat no card and are exactly Rank x Suit.
PartitionInvariant ==
    /\ Len(cards) + Len(dealt) = 52
    /\ Range(cards) \cap Range(dealt) = {}
    /\ NoDup(cards \o dealt)
    /\ Range(cards) \cup Range(dealt) = Card
    /\ Cardinality(Card) = 52

\* C1 witness: cards are out after a successful draw from a deck whose
\* bottom card is no longer the one Deck::new put there.
PartitionWitness ==
    /\ call.op = "draw" /\ ~call.panicked /\ call.nr > 0
    /\ cards # <<>> /\ Len(dealt) > call.nr
    /\ cards[1] # DeckNewCards[1]

\* C2 (as claimed): a draw of more cards than are undealt fails and leaves
\* both the undealt and the dealt sequence as they were.
ExhaustionAllOrNothing ==
    [][(ops' = ops + 1 /\ call'.op = "draw" /\ call'.nr > Len(cards))
          => (call'.panicked /\ cards' = cards /\ dealt' = dealt)]_vars

\* C7: a draw of nr <= |undealt| cards succeeds, removes exactly the last nr
\* undealt cards, last card first, returns them in the order taken, appends
\* them to dealt in that order, leaves the rest as it was, and returns no
\* card that an earlier draw since the last reset has returned.
DrawDealsFromTop ==
    [][(ops' = ops + 1 /\ call'.op = "draw" /\ call'.nr <= Len(cards))
          => LET n == call'.nr
                 len == Len(cards)
             IN  /\ ~call'.panicked
                 /\ cards' = SubSeq(cards, 1, len - n)
                 /\ drawn' = [i \in 1..n |-> cards[len + 1 - i]]
                 /\ dealt' = dealt \o drawn'
                 /\ Range(drawn') \cap returned = {}]_vars

\* C7 witness: a second successful draw of at least two cards since the last
\* reset, with cards still undealt.
DrawWitness ==
    /\ call.op = "draw" /\ ~call.panicked /\ call.nr >= 2
    /\ Len(drawn) = call.nr
    /\ Len(dealt) > call.nr
    /\ cards # <<>>

\* C8: reset leaves dealt empty and all 52 cards undealt, once each; the
\* cards that were undealt keep their positions; with nothing dealt it
\* changes nothing.
ResetReturnsDealt ==
    [][(ops' = ops + 1 /\ call'.op = "reset")
          => /\ dealt' = <<>>
             /\ Len(cards') = 52
             /\ Range(cards') = Card
             /\ SubSeq(cards', 1, Len(cards)) = cards
             /\ (dealt = <<>> => cards' = cards)]_vars

\* C8 witness: the second call is a reset and the first was a draw that
\* handed out cards.
ResetWitness ==
    /\ ops = 2 /\ call.op = "reset"
    /\ drawn # <<>>
    /\ dealt = <<>> /\ Len(cards) = 52
    /\ cards # DeckNewCards

-----------------------------------------------------------------------------
(* The rules of poker, as the claims about Hand::best state them *)

Max(S) == CHOOSE x \in S : \A y \in S : y <= x
Min(S) == CHOOSE x \in S : \A y \in S : x <= y

\* the rank of each score
RankOfScore == [v \in 1..13 |-> CHOOSE r \in Rank : score(r) = v]

\* a card as its score and its suit
Scored(s) == [i \in 1..Len(s) |-> [v |-> score(s[i].rank), s |-> s[i].suit]]

\* a HandRanking value with the Rank fields given as scores
Ranked(variant, scores, mask) ==
    [variant |-> variant,
     ranks |-> [i \in 1..Len(scores) |-> RankOfScore[scores[i]]],
     mask |-> mask]

\* the standard poker ranking of five cards f, given by score and suit.
\* vals are the distinct scores, all the kicker-mask of all five cards and
\* of(k) the scores held by exactly k of the cards.
Rank5(f) ==
    LET vals   == {f[i].v : i \in 1..5}
        n      == Cardinality(vals)
        suited == \A i \in 2..5 : f[i].s = f[1].s
        all    == 2 ^ f[1].v + 2 ^ f[2].v + 2 ^ f[3].v + 2 ^ f[4].v + 2 ^ f[5].v
        of(k)  == {v \in vals : Cardinality({i \in 1..5 : f[i].v = v}) = k}
    IN  CASE n = 5 ->
               LET hi    == Max(vals)
                   wheel == vals = {13, 1, 2, 3, 4}
                   run   == hi - Min(vals) = 4
                   top   == IF wheel THEN 4 ELSE hi
               IN  IF suited /\ (run \/ wheel)
                   THEN IF top = 13 THEN Ranked("RoyalFlush", <<>>, 0)
                        ELSE Ranked("StraightFlush", <<top>>, 0)
                   ELSE IF suited THEN Ranked("Flush", <<>>, all)
                   ELSE IF run \/ wheel THEN Ranked("Straight", <<top>>, 0)
                   ELSE Ranked("HighCard", <<>>, all)
          [] n = 4 ->
               LET pr == Max(of(2))
               IN  Ranked("OnePair", <<pr>>, all - 2 * 2 ^ pr)
          [] n = 3 ->
               LET three == of(3)
               IN  IF three # {}
                   THEN LET t == Max(three)
                        IN  Ranked("Set", <<t>>, all - 3 * 2 ^ t)
                   ELSE Ranked("TwoPair", <<Max(of(2)), Min(of(2)), Max(of(1))>>, 0)
          [] n = 2 ->
               LET four == of(4)
               IN  IF four # {}
                   THEN Ranked("Quads", <<Max(four), Max(of(1))>>, 0)
                   ELSE Ranked("FullHouse", <<Max(of(3)), Max(of(2))>>, 0)

\* the 21 ways of leaving two of seven positions out
LeaveOut == {p \in (1..7) \X (1..7) : p[1] < p[2]}

\* the sequence s without its positions p[1] < p[2]
Without(s, p) ==
    SubSeq(s, 1, p[1] - 1) \o SubSeq(s, p[1] + 1, p[2] - 1) \o SubSeq(s, p[2] + 1, Len(s))

\* the rankings of the 21 five-card subsets of the seven cards
FiveCardRankings(seven) ==
    LET sv == Scored(seven)
    IN  {Rank5(five) : five \in {Without(sv, p) : p \in LeaveOut}}

\* x is the greatest of the rankings R under the order of HandRanking
IsStrongest(x, R) == x \in R /\ \A y \in R : partial_cmp(y, x) # "Greater"

-----------------------------------------------------------------------------
(* Claims about Hand::best and Hand::check_flush *)

\* C3: best() returns the strongest of the standard poker rankings of the
\* 21 five-card subsets of the seven cards, under the order of HandRanking.
BestIsStrongest ==
    phase = "best" => IsStrongest(ranking, FiveCardRankings(hole \o board))

\* C5 helper: the seven cards S in the order in which Deck::new lists them
CanonicalSeven(S) == SelectSeq(DeckNewCards, LAMBDA c : c \in S)

\* C5: the result of best() depends only on the set of the seven cards: it
\* is the result for the Hand built from the same cards in the order of
\* Deck::new, split after the second card, with both maps iterated in
\* ascending order of their keys.
BestIsDeterministic ==
    phase = "best" =>
        \A h \in {HandNew(SubSeq(CanonicalSeven(Range(hole \o board)), 1, 2),
                          SubSeq(CanonicalSeven(Range(hole \o board)), 3, 7), 0)} :
            ranking = best(h)

\* C5 witness: a two-pair hand whose cards are not in canonical order and
\* whose rank_map is not iterated in ascending order.
DeterministicWitness ==
    /\ phase = "best"
    /\ ranking.variant = "TwoPair"
    /\ hole \o board # CanonicalSeven(Range(hole \o board))
    /\ \E i \in 1..(Len(hand.rank_map) - 1) :
          Discriminant(RankIter, hand.rank_map[i].key)
              > Discriminant(RankIter, hand.rank_map[i + 1].key)

\* C3 witness: best() returned a Flush for seven cards that also hold a
\* Straight.
StrongestWitness ==
    /\ phase = "best"
    /\ ranking.variant = "Flush"
    /\ \E r \in FiveCardRankings(hole \o board) : r.variant = "Straight"

\* C6: best() returns a HandRanking whose Rank fields are ranks: no score
\* passed to Rank::id fell outside 1..13.
BestNeverPanics ==
    phase = "best" =>
        /\ ranking.variant \in Range(HandRankingIter)
        /\ \A i \in 1..Len(ranking.ranks) : ranking.ranks[i] \in Rank

\* C6 witness: four Aces, where the mirror bit 0 is still set when the most
\* significant bit of the kicker mask is taken.
NeverPanicsWitness ==
    /\ phase = "best"
    /\ ranking.variant = "Quads"
    /\ ranking.ranks[1] = "Ace"
    /\ hand.bitmask % 2 = 1

\* scenario 6: hole {Ace of Hearts, Nine of Clubs}, board {King of Diamonds,
\* Six of Spades, Eight of Hearts, Four of Clubs, Three of Spades}
Scenario6Dealt ==
    /\ phase = "best"
    /\ Range(hole) = {NewCard("Ace", "Hearts"), NewCard("Nine", "Clubs")}
    /\ Range(board) = {NewCard("King", "Diamonds"), NewCard("Six", "Spades"),
                       NewCard("Eight", "Hearts"), NewCard("Four", "Clubs"),
                       NewCard("Three", "Spades")}

\* C9 (as claimed): in scenario 6 best() returns HighCard with exactly the
\* bits 13, 12, 7, 5 and 3 (A, K, 8, 6, 4) set.
Scenario6AsClaimed ==
    Scenario6Dealt =>
        ranking = [variant |-> "HighCard", ranks |-> <<>>,
                   mask |-> 2 ^ 13 + 2 ^ 12 + 2 ^ 7 + 2 ^ 5 + 2 ^ 3]

\* C9 (amended): in scenario 6 best() returns HighCard with exactly the
\* bits 13, 12, 8, 7 and 5 (A, K, 9, 8, 6) set.
Scenario6HighCard ==
    Scenario6Dealt =>
        ranking = [variant |-> "HighCard", ranks |-> <<>>,
                   mask |-> 2 ^ 13 + 2 ^ 12 + 2 ^ 8 + 2 ^ 7 + 2 ^ 5]

\* C9 witness: scenario 6 has been dealt and evaluated to a HighCard.
Scenario6Witness == Scenario6Dealt /\ ranking.variant = "HighCard"

\* the kicker-mask with exactly the bits of the scores in S set
RECURSIVE MaskOf(_)
MaskOf(S) ==
    IF S = {} THEN 0
    ELSE LET x == CHOOSE x \in S : TRUE IN 2 ^ x + MaskOf(S \ {x})

\* the suits of which the cards S hold at least five
FlushSuits(S) == {s \in Suit : Cardinality({c \in S : c.suit = s}) >= 5}

\* C10 helper: the flush-family ranking of the cards S by the rule of the
\* claim; it reads the cards of the flush suit only
FlushByRule(S) ==
    IF FlushSuits(S) = {} THEN NoRanking
    ELSE LET suit == CHOOSE s \in FlushSuits(S) : TRUE
             sc   == {score(c.rank) : c \in {d \in S : d.suit = suit}}
             low  == sc \cup (IF 13 \in sc THEN {0} ELSE {})
             tops == {t \in 4..13 : \A v \in (t - 4)..t : v \in low}
             five == {v \in sc : Cardinality({w \in sc : w > v}) < 5}
         IN  IF tops # {}
             THEN IF Max(tops) = 13 THEN Ranked("RoyalFlush", <<>>, 0)
                  ELSE Ranked("StraightFlush", <<Max(tops)>>, 0)
             ELSE Ranked("Flush", <<>>, MaskOf(five))

\* the positions of the bits set in m
BitsOf(m) == {i \in 0..15 : (m \div (2 ^ i)) % 2 = 1}

\* C10: check_flush() returns None when no suit has five cards, and else
\* RoyalFlush, StraightFlush(top of the highest straight within the flush
\* suit, Five for the wheel) or Flush(mask) with exactly the bits of the
\* five highest scores of the flush suit set and bit 0 clear.
CheckFlushByRule ==
    phase = "flush" =>
        /\ flush = FlushByRule(Range(hole \o board))
        /\ flush.variant = "Flush" =>
              Cardinality(BitsOf(flush.mask)) = 5 /\ 0 \notin BitsOf(flush.mask)

\* C10 witness: a Flush from six cards of one suit, the Ace among them, with
\* a seventh card of another suit.
CheckFlushWitness ==
    /\ phase = "flush"
    /\ flush.variant = "Flush"
    /\ \E s \in Suit :
          /\ Cardinality({c \in Range(hole \o board) : c.suit = s}) = 6
          /\ NewCard("Ace", s) \in Range(hole \o board)

\* the scores of the ranks of the cards dealt
ScoresDealt == {score(c.rank) : c \in Range(hole \o board)}

\* the scores a straight may run over: those dealt, and 0 for an Ace
LowAceScores == ScoresDealt \cup (IF 13 \in ScoresDealt THEN {0} ELSE {})

\* the windows i..i+4, i in 0..9, of which every score is present
FullWindows == {i \in 0..9 : \A v \in i..(i + 4) : v \in LowAceScores}

\* C11: on the bitmask Hand::new builds (bit 0 set iff bit 13 set, the other
\* bits those of the scores dealt) best_straight returns the rank of score
\* i+4 for the largest i in 0..9 whose window i..i+4 is all set, and None
\* when there is none: A-2-3-4-5 without a Six gives Five, the wheel with a
\* Six gives Six, and Q-K-A-2-3 alone gives None.
BestStraightByRule ==
    phase = "straight" =>
        /\ BitsOf(hand.bitmask) = LowAceScores
        /\ straight = (IF FullWindows = {} THEN NoRank
                       ELSE RankOfScore[Max(FullWindows) + 4])
        /\ ({13, 1, 2, 3, 4} \subseteq ScoresDealt /\ 5 \notin ScoresDealt)
              => straight = "Five"
        /\ ({13, 1, 2, 3, 4, 5} \subseteq ScoresDealt /\ 6 \notin ScoresDealt)
              => straight = "Six"
        /\ ScoresDealt = {11, 12, 13, 1, 2} => straight = NoRank

\* C11 witness: the wheel and the run Two to Six are both held, and
\* best_straight has returned Six.
BestStraightWitness ==
    /\ phase = "straight"
    /\ {13, 1, 2, 3, 4, 5} \subseteq ScoresDealt
    /\ straight = "Six"

\* the number of cards dealt whose rank has score v
CountOfScore(v) == Cardinality({c \in Range(hole \o board) : score(c.rank) = v})

\* the scores of the ranks dealt exactly twice
PairedScores == {v \in ScoresDealt : CountOfScore(v) = 2}

\* C12 helper: seven cards with no rank dealt three or four times, no suit
\* dealt five times, no straight, and two or three ranks dealt twice
TwoPairCase ==
    /\ Len(hole \o board) = 7
    /\ \A v \in ScoresDealt : CountOfScore(v) <= 2
    /\ FlushSuits(Range(hole \o board)) = {}
    /\ FullWindows = {}
    /\ Cardinality(PairedScores) \in {2, 3}

\* C12: in that case best() returns TwoPair(h, l, k), h > l the two highest
\* ranks dealt twice and k the highest of all other ranks dealt, a third
\* pair's rank included; so also when h is the Ace.
TwoPairByRule ==
    (phase = "best" /\ TwoPairCase) =>
        LET h == Max(PairedScores)
            l == Max(PairedScores \ {h})
            k == Max(ScoresDealt \ {h, l})
        IN  /\ h > l
            /\ ranking = [variant |-> "TwoPair",
                          ranks |-> <<RankOfScore[h], RankOfScore[l], RankOfScore[k]>>,
                          mask |-> 0]

\* C12 witness: three pairs with the Ace the highest, the third pair's rank
\* above the one card left, evaluated to a TwoPair of Aces.
TwoPairWitness ==
    /\ phase = "best"
    /\ TwoPairCase
    /\ Cardinality(PairedScores) = 3
    /\ Min(PairedScores) > Min(ScoresDealt)
    /\ ranking.variant = "TwoPair"
    /\ ranking.ranks[1] = "Ace"

-----------------------------------------------------------------------------
(* Claims about the order of HandRanking *)

\* the variants from weakest to strongest, as the claim lists them
ClaimedOrder == <<"HighCard", "OnePair", "TwoPair", "Set", "Straight",
                  "Flush", "FullHouse", "Quads", "StraightFlush", "RoyalFlush">>

Strength(x) == CHOOSE i \in 1..Len(ClaimedOrder) : ClaimedOrder[i] = x.variant

\* the payload of a value, left to right: the scores of its ranks, then its mask
Payload(x) ==
    [i \in 1..(Len(x.ranks) + 1) |->
        IF i <= Len(x.ranks) THEN score(x.ranks[i]) ELSE x.mask]

\* f comes before g, comparing the fields left to right
LexLess(f, g) ==
    \E i \in 1..Len(f) : f[i] < g[i] /\ \A j \in 1..(i - 1) : f[j] = g[j]

\* C4: exactly one of <, == and > holds; a later variant is greater whatever
\* the payloads; within a variant the payloads are compared left to right,
\* ranks by score and masks as unsigned integers, so that with equal ranks a
\* higher mask is greater.
OrderFollowsRule ==
    ord.cmp # "None" =>
        LET lt == ord.cmp = "Less"
            gt == ord.cmp = "Greater"
        IN  /\ \/ lt /\ ~ord.eq /\ ~gt
               \/ ~lt /\ ord.eq /\ ~gt
               \/ ~lt /\ ~ord.eq /\ gt
            /\ Strength(lhs) < Strength(rhs) => lt
            /\ Strength(lhs) > Strength(rhs) => gt
            /\ lhs.variant = rhs.variant =>
                  /\ lt <=> LexLess(Payload(lhs), Payload(rhs))
                  /\ gt <=> LexLess(Payload(rhs), Payload(lhs))
                  /\ (lhs.ranks = rhs.ranks /\ lhs.mask < rhs.mask) => lt

\* C4 witness: two OnePair values of the same rank, the left with all bits
\* below bit 13 set and the right with bit 13 alone, compared as Less.
OrderWitness ==
    /\ ord.cmp = "Less"
    /\ lhs.variant = "OnePair" /\ rhs.variant = "OnePair"
    /\ lhs.ranks = rhs.ranks
    /\ lhs.mask = 2 ^ 13 - 1 /\ rhs.mask = 2 ^ 13

====
